---- MODULE Spec2Model ----
(***************************************************************************)
(* Model of the fuel-indexer execution and lifecycle subsystem:            *)
(*   - the service supervisor of packages/fuel-indexer/src/service.rs      *)
(*     (IndexerService and create_service_task), and                       *)
(*   - the per-executor database session of                                *)
(*     packages/fuel-indexer/src/database.rs (Database).                   *)
(* Spec   is the supervisor; SpecDb is one Database session driven by      *)
(* arbitrary calls; SpecStart is get_start_block on each registration      *)
(* path; SpecExec is the control loop of one executor over its session.    *)
(***************************************************************************)
EXTENDS Integers, Sequences, FiniteSets, TLC

\* ------------------------------------------------------------------ bounds
MaxExecs == 2
MaxReqs  == 2      \* service requests ever sent on the channel
MaxVer   == 2      \* Module asset versions per index
MaxConns == 2      \* connections of the pool

\* The index uids (namespace.identifier) of the model.
Uids == {"demo.v1", "demo.v2"}
\* The order in which queries::registered_indices returns the indices.
UidOrder == <<"demo.v1", "demo.v2">>

NoExec == 0
NoConn == 0
NoRow  == [account |-> 0, object |-> 0]

\* Values of the id column, of the other columns, and entity blobs.
Ids      == {1, 2}
Accounts == {7}
Blobs    == {1, 2}
\* Type ids a guest may pass; only those of Tables are in the Schema Map.
TypeIds == {"Thing", "Unknown"}
NoReq  == [type |-> "None", uid |-> "", bytes |-> 0]

VARIABLES
    \* ---- supervisor (service.rs)
    execs,      \* every executor task spawned so far, in spawn order
    handles,    \* IndexerService.handles: uid -> executor (NoExec: absent)
    killers,    \* IndexerService.killers / the task's killers: uid -> executor
                \* whose Arc<AtomicBool> the map holds (NoExec: absent)
    futs,       \* the shared FuturesUnordered of JoinHandles
    pc,         \* position of IndexerService / create_service_task
    chan,       \* the mpsc channel of ServiceRequests
    nsent,      \* requests sent so far (bounds the model)
    req,        \* the request being handled
    new,        \* the executor just created by the handler (handle, killer)
    prev,       \* killer_for_prev_executor
    indexRows,  \* uids with a row in the index table
    wasmVer,    \* uid -> number of Module asset rows (latest = this version)
    svcTx,      \* the transaction of the IndexRevert handler
    \* ---- database session (database.rs)
    stashed,    \* Database.stashed: the connection held (NoConn: None)
    conns,      \* pool connection -> [tx: open BEGIN, pend: its uncommitted rows]
    durable,    \* committed rows of the entity tables: <<table, id>> -> blob
    dbres,      \* outcome of the last Database call
    issued,     \* SQL statements the last Database call sent, in order
    \* ---- executor control loop
    epc,        \* position of the executor's task in its loop
    killed,     \* the executor's cancellation flag
    cursor,     \* height of the next block to process
    calls,      \* the put_object calls ([tid, id]) of the current block
    ended,      \* how the processing of the last block ended
    persisted,  \* last committed block height recorded for the uid (0: none)
    \* ---- start block of a registration (service.rs, get_start_block)
    manifest,   \* [resumable, start_block], each an Option: <<>> or <<v>>
    started,    \* the last executor creation: path, outcome, start block
    \* ---- IndexerService::run beside the service task
    rpc,        \* position of run()
    lock,       \* holder of the Mutex around the shared future set
    exited,     \* executors whose task has terminated
    retired,    \* executors the retirement loop has taken from the set
    \* ---- API handlers (uses.rs)
    apc,        \* position of the handler
    api,        \* the call: [handler, auth, hasTx]
    fields,     \* multipart fields still to read (None: no multipart body)
    apiLog,     \* database steps of the handler so far: [sql, ok]
    \* ---- verify_signature requests carrying one nonce (uses.rs)
    vpc,        \* request -> position
    nonce,      \* the nonce the requests carry: [stored, expired]
    tokens,     \* requests that returned a token
    authConfig  \* config.authentication: [enabled, strategy]

svcVars == <<execs, handles, killers, futs, pc, chan, nsent, req, new, prev,
             indexRows, wasmVer, svcTx>>
dbVars  == <<stashed, conns, durable, dbres, issued>>
exVars  == <<epc, killed, cursor, calls, ended, persisted>>
regVars == <<manifest, started>>
runVars == <<rpc, lock, exited, retired>>
apiVars == <<apc, api, fields, apiLog>>
authVars == <<vpc, nonce, tokens, authConfig>>
vars    == <<svcVars, dbVars, exVars, regVars, runVars, apiVars, authVars>>
\* What the steps of each part leave alone.
nonSvcVars  == <<dbVars, exVars, regVars, runVars, apiVars, authVars>>
nonDbVars   == <<svcVars, exVars, regVars, runVars, apiVars, authVars>>
nonExecVars == <<svcVars, regVars, runVars, apiVars, authVars>>
nonRegVars  == <<svcVars, dbVars, exVars, runVars, apiVars, authVars>>
nonAuthVars == <<svcVars, dbVars, exVars, regVars, runVars, apiVars>>

\* ------------------------------------------------------- supervisor helpers

\* WasmIndexExecutor::create / NativeIndexExecutor::create on success: a new
\* task is spawned; its JoinHandle and its cancellation flag (unset) are
\* returned.  The executor is named by its position in execs.
Spawn(es, u, m) ==
    Append(es, [uid |-> u, module |-> m, killed |-> FALSE])

\* A store that sets the flag of e and writes false to every other flag.
Kill_ClearsOthers(es, e) ==
    [i \in 1..Len(es) |-> [es[i] EXCEPT !.killed = (i = e)]]

\* killer.store(true, Ordering::SeqCst)
Kill(es, e) == [es EXCEPT ![e].killed = TRUE]

\* The executors of uid u that run with their cancellation flag unset.
LiveExecs(u) ==
    {e \in 1..Len(execs) :
        /\ execs[e].uid = u
        /\ ~execs[e].killed}

\* The indices queries::registered_indices returns, in its order.
RegisteredIndices == SelectSeq(UidOrder, LAMBDA u : u \in indexRows)

\* queries::latest_assets_for_index finds assets only when some were stored.
HasAssets(u) == wasmVer[u] >= 1

InitSvc ==
    /\ execs = <<>>
    /\ handles = [u \in Uids |-> NoExec]
    /\ killers = [u \in Uids |-> NoExec]
    /\ futs = {}
    /\ pc = "setup"
    /\ chan = <<>>
    /\ nsent = 0
    /\ req = NoReq
    /\ new = NoExec
    /\ prev = NoExec
    /\ indexRows \in SUBSET Uids
    /\ wasmVer = [u \in Uids |-> IF u \in indexRows THEN 1 ELSE 0]
    /\ svcTx = "none"

\* --------------------------------------------------- registration (setup)

\* IndexerService::register_index_from_manifest.  outcome names where the
\* first `?` fired: "err_early" (pool.acquire or register_index),
\* "err_schema" (graphql_schema, new_schema, acquire, get_start_block or
\* WasmIndexExecutor::create, after the index row was written),
\* "err_assets" (register_index_asset, after the executor was created),
\* or "ok".
RegisterIndexFromManifest(u, outcome) ==
    /\ pc = "setup"
    /\ CASE outcome = "err_early" ->
              UNCHANGED <<execs, handles, killers, indexRows, wasmVer>>
         [] outcome = "err_schema" ->
              /\ indexRows' = indexRows \cup {u}
              /\ UNCHANGED <<execs, handles, killers, wasmVer>>
         [] outcome = "err_assets" ->
              /\ Len(execs) < MaxExecs
              /\ wasmVer[u] < MaxVer
              /\ indexRows' = indexRows \cup {u}
              /\ execs' = Spawn(execs, u, wasmVer[u] + 1)
              /\ UNCHANGED <<handles, killers, wasmVer>>
         [] outcome = "ok" ->
              /\ Len(execs) < MaxExecs
              /\ wasmVer[u] < MaxVer
              /\ indexRows' = indexRows \cup {u}
              /\ execs' = Spawn(execs, u, wasmVer[u] + 1)
              /\ wasmVer' = [wasmVer EXCEPT ![u] = @ + 1]
              /\ handles' = [handles EXCEPT ![u] = Len(execs) + 1]
              /\ killers' = [killers EXCEPT ![u] = Len(execs) + 1]
    /\ UNCHANGED <<futs, pc, chan, nsent, req, new, prev, svcTx>>

\* IndexerService::register_indices_from_registry: the first k registered
\* indices are materialised; when k is less than their number, the `?` of
\* index k+1 ends the call (latest_assets_for_index, Manifest::from_slice or
\* WasmIndexExecutor::create failed).
RegisterIndicesFromRegistry(k) ==
    LET regs == RegisteredIndices
        pos(u) == CHOOSE i \in 1..k : regs[i] = u
        done(u) == \E i \in 1..k : regs[i] = u
    IN  /\ pc = "setup"
        /\ k \in 0..Len(regs)
        /\ \A i \in 1..k : HasAssets(regs[i])
        /\ Len(execs) + k <= MaxExecs
        /\ execs' = execs \o [i \in 1..k |->
                        [uid |-> regs[i], module |-> wasmVer[regs[i]],
                         killed |-> FALSE]]
        /\ handles' = [u \in Uids |->
                        IF done(u) THEN Len(execs) + pos(u) ELSE handles[u]]
        /\ killers' = [u \in Uids |->
                        IF done(u) THEN Len(execs) + pos(u) ELSE killers[u]]
        /\ UNCHANGED <<futs, pc, chan, nsent, req, new, prev, indexRows,
                       wasmVer, svcTx>>

\* IndexerService::register_native_index.  "err_early": pool.acquire or
\* register_index failed; "err_schema": graphql_schema, new_schema or
\* NativeIndexExecutor::create failed; "ok".  A native index has no module
\* asset (module 0).
RegisterNativeIndex(u, outcome) ==
    /\ pc = "setup"
    /\ CASE outcome = "err_early" ->
              UNCHANGED <<execs, handles, killers, indexRows>>
         [] outcome = "err_schema" ->
              /\ indexRows' = indexRows \cup {u}
              /\ UNCHANGED <<execs, handles, killers>>
         [] outcome = "ok" ->
              /\ Len(execs) < MaxExecs
              /\ indexRows' = indexRows \cup {u}
              /\ execs' = Spawn(execs, u, 0)
              /\ handles' = [handles EXCEPT ![u] = Len(execs) + 1]
              /\ killers' = [killers EXCEPT ![u] = Len(execs) + 1]
    /\ UNCHANGED <<futs, pc, chan, nsent, req, new, prev, wasmVer, svcTx>>

\* IndexerService::run up to the spawn of create_service_task: the handles
\* become the shared future set, killers moves into the task.  Without a
\* receiver the task returns Ok at once.
Run(hasRx) ==
    /\ pc = "setup"
    /\ futs' = {handles[u] : u \in {v \in Uids : handles[v] # NoExec}}
    /\ handles' = [u \in Uids |-> NoExec]
    /\ pc' = IF hasRx THEN "recv" ELSE "returned"
    /\ UNCHANGED <<execs, killers, chan, nsent, req, new, prev, indexRows,
                   wasmVer, svcTx>>


\* ------------------------------------------------- service request channel

\* The API handlers of uses.rs put requests on the channel.  The API server
\* runs beside IndexerService::run; a send succeeds while the receiver lives.
ChannelOpen == pc \notin {"setup", "panicked", "returned"}

\* register_indexer_assets: the uploaded assets are committed (with `upload`,
\* a new Module version among them), then AssetReload is sent.
SendAssetReload(u, upload) ==
    /\ ChannelOpen
    /\ nsent < MaxReqs
    /\ IF upload
         THEN /\ wasmVer[u] < MaxVer
              /\ wasmVer' = [wasmVer EXCEPT ![u] = @ + 1]
              /\ indexRows' = indexRows \cup {u}
         ELSE UNCHANGED <<wasmVer, indexRows>>
    /\ chan' = Append(chan, [type |-> "AssetReload", uid |-> u, bytes |-> 0])
    /\ nsent' = nsent + 1
    /\ UNCHANGED <<execs, handles, killers, futs, pc, req, new, prev, svcTx>>

\* stop_indexer: queries::remove_indexer deletes the index (its row and its
\* assets) and is committed, then IndexStop is sent.
SendIndexStop(u) ==
    /\ ChannelOpen
    /\ nsent < MaxReqs
    /\ indexRows' = indexRows \ {u}
    /\ wasmVer' = [wasmVer EXCEPT ![u] = 0]
    /\ chan' = Append(chan, [type |-> "IndexStop", uid |-> u, bytes |-> 0])
    /\ nsent' = nsent + 1
    /\ UNCHANGED <<execs, handles, killers, futs, pc, req, new, prev, svcTx>>

\* revert_indexer: the penultimate Module asset is looked up (the `?` ends the
\* handler when there is none) and sent with IndexRevert.
SendIndexRevert(u) ==
    /\ ChannelOpen
    /\ nsent < MaxReqs
    /\ wasmVer[u] >= 2
    /\ chan' = Append(chan, [type |-> "IndexRevert", uid |-> u,
                             bytes |-> wasmVer[u] - 1])
    /\ nsent' = nsent + 1
    /\ UNCHANGED <<execs, handles, killers, futs, pc, req, new, prev,
                   indexRows, wasmVer, svcTx>>

\* ------------------------------------------------------ create_service_task

\* The position a received request is dispatched to.
Dispatch(r) ==
    CASE r.type = "AssetReload" -> "reload_acquire"
      [] r.type = "IndexStop"   -> "stop"
      [] r.type = "IndexRevert" -> "revert_kill"

\* futs.lock().await; rx.try_recv() returns Ok(service_request).
Recv ==
    /\ pc = "recv"
    /\ chan # <<>>
    /\ req' = Head(chan)
    /\ chan' = Tail(chan)
    /\ pc' = Dispatch(Head(chan))
    /\ new' = NoExec
    /\ prev' = NoExec
    /\ svcTx' = "none"
    /\ UNCHANGED <<execs, handles, killers, futs, nsent, indexRows, wasmVer>>

\* rx.try_recv() returns Err: sleep IDLE_SERVICE_WAIT_SECS and loop.
RecvIdle ==
    /\ pc = "recv"
    /\ chan = <<>>
    /\ UNCHANGED svcVars

\* A step of a handler that changes nothing but the position: ok leads on,
\* a failure to where (panic of an expect, return of a `?`, continue).
Step(from, ok, to, failTo) ==
    /\ pc = from
    /\ pc' = IF ok THEN to ELSE failTo
    /\ UNCHANGED <<execs, handles, killers, futs, chan, nsent, req, new, prev,
                   indexRows, wasmVer, svcTx>>

\* ---- ServiceRequest::AssetReload

\* pool.acquire().await.expect(..)
ReloadAcquire(ok) == Step("reload_acquire", ok, "reload_index_id", "panicked")

\* queries::index_id_for: Err is logged and the loop continues.
ReloadIndexId(ok) ==
    /\ Step("reload_index_id", ok, "reload_assets", "recv")
    /\ ok => req.uid \in indexRows

\* queries::latest_assets_for_index(..).expect(..)
ReloadLatestAssets(ok) ==
    /\ Step("reload_assets", ok, "reload_manifest", "panicked")
    /\ ok => HasAssets(req.uid)

\* serde_yaml::from_slice(&assets.manifest.bytes).expect(..)
ReloadManifest(ok) == Step("reload_manifest", ok, "reload_start_block", "panicked")

\* ReloadStartBlock with the previous executor cancelled when the lookup fails.
ReloadStartBlock_KillsOnErr(ok) ==
    /\ pc = "reload_start_block"
    /\ pc' = IF ok THEN "reload_create" ELSE "returned"
    /\ execs' = IF ~ok /\ killers[req.uid] # NoExec
                  THEN Kill(execs, killers[req.uid]) ELSE execs
    /\ UNCHANGED <<handles, killers, futs, chan, nsent, req, new, prev,
                   indexRows, wasmVer, svcTx>>

\* get_start_block(&mut conn, &manifest).await?
ReloadStartBlock(ok) == Step("reload_start_block", ok, "reload_create", "returned")

\* ReloadCreate with the previous executor cancelled as soon as the new one
\* is created (old-down before the new one is recorded).
ReloadCreate_KillsFirst(ok) ==
    /\ pc = "reload_create"
    /\ IF ok
         THEN /\ Len(execs) < MaxExecs
              /\ execs' = Spawn(IF killers[req.uid] # NoExec
                                  THEN Kill(execs, killers[req.uid])
                                  ELSE execs,
                                req.uid, wasmVer[req.uid])
              /\ new' = Len(execs) + 1
              /\ pc' = "reload_push"
         ELSE /\ pc' = "panicked"
              /\ UNCHANGED <<execs, new>>
    /\ UNCHANGED <<handles, killers, futs, chan, nsent, req, prev, indexRows,
                   wasmVer, svcTx>>

\* WasmIndexExecutor::create(.., ExecutorSource::Registry(assets.wasm.bytes), ..)
\*     .await.expect(..)
ReloadCreate(ok) ==
    /\ pc = "reload_create"
    /\ IF ok
         THEN /\ Len(execs) < MaxExecs
              /\ execs' = Spawn(execs, req.uid, wasmVer[req.uid])
              /\ new' = Len(execs) + 1
              /\ pc' = "reload_push"
         ELSE /\ pc' = "panicked"
              /\ UNCHANGED <<execs, new>>
    /\ UNCHANGED <<handles, killers, futs, chan, nsent, req, prev, indexRows,
                   wasmVer, svcTx>>

\* futs.push(handle)
ReloadPush ==
    /\ pc = "reload_push"
    /\ futs' = futs \cup {new}
    /\ pc' = "reload_insert"
    /\ UNCHANGED <<execs, handles, killers, chan, nsent, req, new, prev,
                   indexRows, wasmVer, svcTx>>

\* killers.insert(manifest.uid(), killer) returns the previous flag, if any.
ReloadInsert ==
    /\ pc = "reload_insert"
    /\ prev' = killers[req.uid]
    /\ killers' = [killers EXCEPT ![req.uid] = new]
    /\ pc' = IF killers[req.uid] # NoExec THEN "reload_kill" ELSE "recv"
    /\ UNCHANGED <<execs, handles, futs, chan, nsent, req, new, indexRows,
                   wasmVer, svcTx>>

\* killer_for_prev_executor.store(true, Ordering::SeqCst)
ReloadKillPrev ==
    /\ pc = "reload_kill"
    /\ execs' = Kill(execs, prev)
    /\ pc' = "recv"
    /\ UNCHANGED <<handles, killers, futs, chan, nsent, req, new, prev,
                   indexRows, wasmVer, svcTx>>

\* ---- ServiceRequest::IndexStop

\* IndexStop with killers.get in place of killers.remove.
IndexStop_KeepsEntry ==
    /\ pc = "stop"
    /\ IF killers[req.uid] # NoExec
         THEN execs' = Kill(execs, killers[req.uid])
         ELSE UNCHANGED execs
    /\ pc' = "recv"
    /\ UNCHANGED <<handles, killers, futs, chan, nsent, req, new, prev,
                   indexRows, wasmVer, svcTx>>

\* IndexStop with an expect on the uid in place of the warning.
IndexStop_UnknownPanics ==
    /\ pc = "stop"
    /\ IF killers[req.uid] # NoExec
         THEN /\ execs' = Kill(execs, killers[req.uid])
              /\ killers' = [killers EXCEPT ![req.uid] = NoExec]
              /\ pc' = "recv"
         ELSE /\ pc' = "panicked"
              /\ UNCHANGED <<execs, killers>>
    /\ UNCHANGED <<handles, futs, chan, nsent, req, new, prev, indexRows,
                   wasmVer, svcTx>>

\* killers.remove(&uid): the flag found is set; an unknown uid is a warning.
IndexStop ==
    /\ pc = "stop"
    /\ IF killers[req.uid] # NoExec
         THEN /\ execs' = Kill(execs, killers[req.uid])
              /\ killers' = [killers EXCEPT ![req.uid] = NoExec]
         ELSE UNCHANGED <<execs, killers>>
    /\ pc' = "recv"
    /\ UNCHANGED <<handles, futs, chan, nsent, req, new, prev, indexRows,
                   wasmVer, svcTx>>


\* ---- ServiceRequest::IndexRevert

\* killers.get(&uid): the flag found is set; an unknown uid is a warning.
RevertKill ==
    /\ pc = "revert_kill"
    /\ IF killers[req.uid] # NoExec
         THEN execs' = Kill(execs, killers[req.uid])
         ELSE UNCHANGED execs
    /\ pc' = "revert_acquire"
    /\ UNCHANGED <<handles, killers, futs, chan, nsent, req, new, prev,
                   indexRows, wasmVer, svcTx>>

\* pool.acquire().await.expect(..)
RevertAcquire(ok) == Step("revert_acquire", ok, "revert_begin", "panicked")

\* queries::start_transaction(&mut conn).await.expect(..)
RevertBegin(ok) ==
    /\ pc = "revert_begin"
    /\ pc' = IF ok THEN "revert_assets" ELSE "panicked"
    /\ svcTx' = IF ok THEN "open" ELSE svcTx
    /\ UNCHANGED <<execs, handles, killers, futs, chan, nsent, req, new, prev,
                   indexRows, wasmVer>>

\* queries::latest_assets_for_index(&mut conn, &request.penultimate_asset_id)
\*     .await.expect(..)
RevertLatestAssets(ok) ==
    /\ Step("revert_assets", ok, "revert_remove", "panicked")
    /\ ok => HasAssets(req.uid)

\* queries::remove_asset_by_version(.., IndexAssetType::Wasm): Ok leads to the
\* commit, Err to the revert of the transaction.
RevertRemove(ok) ==
    /\ pc = "revert_remove"
    /\ pc' = IF ok THEN "revert_commit" ELSE "revert_rollback"
    /\ svcTx' = IF ok THEN "removed" ELSE svcTx
    /\ UNCHANGED <<execs, handles, killers, futs, chan, nsent, req, new, prev,
                   indexRows, wasmVer>>

\* queries::commit_transaction(&mut conn).await.expect(..): the removal of
\* the latest Module asset row becomes durable.
RevertCommit(ok) ==
    /\ pc = "revert_commit"
    /\ IF ok
         THEN /\ wasmVer' = [wasmVer EXCEPT ![req.uid] = @ - 1]
              /\ svcTx' = "committed"
              /\ pc' = "revert_manifest"
         ELSE /\ pc' = "panicked"
              /\ UNCHANGED <<wasmVer, svcTx>>
    /\ UNCHANGED <<execs, handles, killers, futs, chan, nsent, req, new, prev,
                   indexRows>>

\* queries::revert_transaction(&mut conn).await.expect(..); the handler then
\* goes on to the manifest like after a commit.
RevertRollback(ok) ==
    /\ pc = "revert_rollback"
    /\ pc' = IF ok THEN "revert_manifest" ELSE "panicked"
    /\ svcTx' = IF ok THEN "reverted" ELSE svcTx
    /\ UNCHANGED <<execs, handles, killers, futs, chan, nsent, req, new, prev,
                   indexRows, wasmVer>>

\* Manifest::from_slice(&latest_assets.manifest.bytes).expect(..)
RevertManifest(ok) == Step("revert_manifest", ok, "revert_start_block", "panicked")

\* get_start_block(&mut conn, &manifest).await?
RevertStartBlock(ok) == Step("revert_start_block", ok, "revert_create", "returned")

\* WasmIndexExecutor::create(.., ExecutorSource::Registry(
\*     request.penultimate_asset_bytes), ..).await.expect(..)
RevertCreate(ok) ==
    /\ pc = "revert_create"
    /\ IF ok
         THEN /\ Len(execs) < MaxExecs
              /\ execs' = Spawn(execs, req.uid, req.bytes)
              /\ new' = Len(execs) + 1
              /\ pc' = "revert_push"
         ELSE /\ pc' = "panicked"
              /\ UNCHANGED <<execs, new>>
    /\ UNCHANGED <<handles, killers, futs, chan, nsent, req, prev, indexRows,
                   wasmVer, svcTx>>

\* futs.push(handle)
RevertPush ==
    /\ pc = "revert_push"
    /\ futs' = futs \cup {new}
    /\ pc' = "revert_insert"
    /\ UNCHANGED <<execs, handles, killers, chan, nsent, req, new, prev,
                   indexRows, wasmVer, svcTx>>

\* killers.insert(manifest.uid(), killer)
RevertInsert ==
    /\ pc = "revert_insert"
    /\ killers' = [killers EXCEPT ![req.uid] = new]
    /\ pc' = "recv"
    /\ UNCHANGED <<execs, handles, futs, chan, nsent, req, new, prev,
                   indexRows, wasmVer, svcTx>>

\* -------------------------------------------------------------------- Spec

RegOutcomes    == {"err_early", "err_schema", "err_assets", "ok"}
NativeOutcomes == {"err_early", "err_schema", "ok"}

Next ==
    \/ \E u \in Uids, o \in RegOutcomes : RegisterIndexFromManifest(u, o) /\ UNCHANGED nonSvcVars
    \/ \E k \in 0..Len(UidOrder) : RegisterIndicesFromRegistry(k) /\ UNCHANGED nonSvcVars
    \/ \E u \in Uids, o \in NativeOutcomes : RegisterNativeIndex(u, o) /\ UNCHANGED nonSvcVars
    \/ \E hasRx \in BOOLEAN : Run(hasRx) /\ UNCHANGED nonSvcVars
    \/ \E u \in Uids, upload \in BOOLEAN : SendAssetReload(u, upload) /\ UNCHANGED nonSvcVars
    \/ \E u \in Uids : SendIndexStop(u) /\ UNCHANGED nonSvcVars
    \/ \E u \in Uids : SendIndexRevert(u) /\ UNCHANGED nonSvcVars
    \/ Recv /\ UNCHANGED nonSvcVars
    \/ RecvIdle /\ UNCHANGED nonSvcVars
    \/ \E ok \in BOOLEAN : ReloadAcquire(ok) /\ UNCHANGED nonSvcVars
    \/ \E ok \in BOOLEAN : ReloadIndexId(ok) /\ UNCHANGED nonSvcVars
    \/ \E ok \in BOOLEAN : ReloadLatestAssets(ok) /\ UNCHANGED nonSvcVars
    \/ \E ok \in BOOLEAN : ReloadManifest(ok) /\ UNCHANGED nonSvcVars
    \/ \E ok \in BOOLEAN : ReloadStartBlock(ok) /\ UNCHANGED nonSvcVars
    \/ \E ok \in BOOLEAN : ReloadCreate(ok) /\ UNCHANGED nonSvcVars
    \/ ReloadPush /\ UNCHANGED nonSvcVars
    \/ ReloadInsert /\ UNCHANGED nonSvcVars
    \/ ReloadKillPrev /\ UNCHANGED nonSvcVars
    \/ IndexStop /\ UNCHANGED nonSvcVars
    \/ RevertKill /\ UNCHANGED nonSvcVars
    \/ \E ok \in BOOLEAN : RevertAcquire(ok) /\ UNCHANGED nonSvcVars
    \/ \E ok \in BOOLEAN : RevertBegin(ok) /\ UNCHANGED nonSvcVars
    \/ \E ok \in BOOLEAN : RevertLatestAssets(ok) /\ UNCHANGED nonSvcVars
    \/ \E ok \in BOOLEAN : RevertRemove(ok) /\ UNCHANGED nonSvcVars
    \/ \E ok \in BOOLEAN : RevertCommit(ok) /\ UNCHANGED nonSvcVars
    \/ \E ok \in BOOLEAN : RevertRollback(ok) /\ UNCHANGED nonSvcVars
    \/ \E ok \in BOOLEAN : RevertManifest(ok) /\ UNCHANGED nonSvcVars
    \/ \E ok \in BOOLEAN : RevertStartBlock(ok) /\ UNCHANGED nonSvcVars
    \/ \E ok \in BOOLEAN : RevertCreate(ok) /\ UNCHANGED nonSvcVars
    \/ RevertPush /\ UNCHANGED nonSvcVars
    \/ RevertInsert /\ UNCHANGED nonSvcVars

\* ------------------------------------------------------- database session

\* Database.tables and Database.schema as load_schema fills them for one
\* type "Thing" with columns [id, account] and the entity blob in object.
Tables == [t \in {"Thing"} |-> "demo_v1.thing"]
Schema == [t \in {"demo_v1.thing"} |-> <<"id", "account", "object">>]

Conns == 1..MaxConns
\* The column lists a guest may pass: an id followed by other values, from
\* none up to one value per column of the table (too few, right, too many).
ColumnLists ==
    UNION {{cl \in [1..n -> Ids \cup Accounts] :
               \A i \in 1..n : IF i = 1 THEN cl[i] \in Ids ELSE cl[i] \in Accounts} :
           n \in 0..Len(Schema["demo_v1.thing"])}

\* A row the open transaction of a connection has not written.
Same == [account |-> -1, object |-> -1]
NoPend == [i \in Ids |-> Same]
FreshConn == [tx |-> FALSE, pend |-> NoPend]

\* The statement queries::execute_query / put_object / get_object sends.
Sql(text, ncols, nvals) == [sql |-> text, cols |-> ncols, vals |-> nvals]

\* Database::upsert_query: the column names, the value fragments followed by
\* the bound $1, and the DO UPDATE SET assignments.
upsert_query(table, columns, inserts, updates) ==
    [table |-> table, columns |-> columns, inserts |-> inserts,
     updates |-> updates]

\* The updates of put_object: the schema's columns zipped with the guest's
\* values (zip stops at the shorter), the id column filtered out.
Updates(cols, columns) ==
    LET n == IF Len(cols) < Len(columns) THEN Len(cols) ELSE Len(columns)
    IN  SelectSeq([i \in 1..n |-> <<cols[i], columns[i]>>],
                  LAMBDA pr : pr[1] # "id")

\* Database::get_query
get_query(table, object_id) == [table |-> table, id |-> object_id]

\* The row a connection sees for an id: its own uncommitted write, if any.
View(c, id) ==
    IF conns[c].pend[id] = Same THEN durable[id] ELSE conns[c].pend[id]

\* The database accepts an upsert whose VALUES list (the fragments and $1)
\* has one value per column.
UpsertAccepted(q) == Len(q.columns) = Len(q.inserts) + 1

\* The value an accepted upsert gives column col of a new row.
Inserted(q, blob, col) ==
    LET i == CHOOSE j \in 1..Len(q.columns) : q.columns[j] = col
    IN  IF i <= Len(q.inserts) THEN q.inserts[i] ELSE blob

\* The row an accepted upsert leaves: INSERT when the id is new, else
\* ON CONFLICT(id) DO UPDATE SET with the updates.
UpsertRow(q, blob, old) ==
    IF old = NoRow
      THEN [account |-> Inserted(q, blob, "account"),
            object  |-> Inserted(q, blob, "object")]
      ELSE [account |-> IF \E k \in 1..Len(q.updates) : q.updates[k][1] = "account"
                          THEN q.updates[CHOOSE k \in 1..Len(q.updates) :
                                             q.updates[k][1] = "account"][2]
                          ELSE old.account,
            object  |-> IF \E k \in 1..Len(q.updates) : q.updates[k][1] = "object"
                          THEN q.updates[CHOOSE k \in 1..Len(q.updates) :
                                             q.updates[k][1] = "object"][2]
                          ELSE old.object]

\* The outcome of a Database call: the call, its type id (put, get), how it
\* ended and the value returned.
Result(op, tid, st, val) == [op |-> op, tid |-> tid, st |-> st, val |-> val]

\* A panic ends the task that owns the session.
Usable == dbres.st # "panic"

InitDb ==
    /\ stashed = NoConn
    /\ conns = [c \in Conns |-> FreshConn]
    /\ durable = [i \in Ids |-> NoRow]
    /\ dbres = Result("new", "", "ok", 0)
    /\ issued = <<>>

\* Database::start_transaction.  acq: the connection pool.acquire() hands out
\* (NoConn: the acquire failed); beginOk: whether BEGIN succeeded.
start_transaction(acq, beginOk) ==
    /\ Usable
    /\ acq \in Conns => acq # stashed
    /\ IF acq = NoConn
         THEN /\ dbres' = Result("start", "", "err", 0)
              /\ issued' = <<>>
              /\ UNCHANGED <<stashed, conns>>
         ELSE /\ issued' = <<Sql("BEGIN", 0, 0)>>
              /\ IF beginOk
                   THEN /\ conns' = [conns EXCEPT ![acq].tx = TRUE]
                        /\ stashed' = acq
                        /\ dbres' = Result("start", "", "ok", 0)
                   ELSE /\ dbres' = Result("start", "", "err", 0)
                        /\ UNCHANGED <<stashed, conns>>
    /\ UNCHANGED durable

\* commit_transaction with stashed.as_mut() in place of stashed.take().
commit_transaction_Peek(ok) ==
    /\ Usable
    /\ IF stashed = NoConn
         THEN /\ dbres' = Result("commit", "", "no_transaction", 0)
              /\ issued' = <<>>
              /\ UNCHANGED <<stashed, conns, durable>>
         ELSE /\ issued' = <<Sql("COMMIT", 0, 0)>>
              /\ IF ok
                   THEN /\ durable' = [i \in Ids |-> View(stashed, i)]
                        /\ conns' = [conns EXCEPT ![stashed] = FreshConn]
                        /\ dbres' = Result("commit", "", "ok", 0)
                   ELSE \* the statement failed: the server closed the
                        \* transaction without making its writes durable
                        /\ conns' = [conns EXCEPT ![stashed] = FreshConn]
                        /\ dbres' = Result("commit", "", "err", 0)
                        /\ UNCHANGED durable
              /\ UNCHANGED stashed

\* Database::commit_transaction.  ok: whether COMMIT succeeded.
commit_transaction(ok) ==
    /\ Usable
    /\ IF stashed = NoConn
         THEN /\ dbres' = Result("commit", "", "no_transaction", 0)
              /\ issued' = <<>>
              /\ UNCHANGED <<stashed, conns, durable>>
         ELSE /\ stashed' = NoConn
              /\ issued' = <<Sql("COMMIT", 0, 0)>>
              /\ IF ok
                   THEN /\ durable' = [i \in Ids |-> View(stashed, i)]
                        /\ conns' = [conns EXCEPT ![stashed] = FreshConn]
                        /\ dbres' = Result("commit", "", "ok", 0)
                   ELSE \* the statement failed: the server closed the
                        \* transaction without making its writes durable
                        /\ conns' = [conns EXCEPT ![stashed] = FreshConn]
                        /\ dbres' = Result("commit", "", "err", 0)
                        /\ UNCHANGED durable

\* Database::revert_transaction.  ok: whether ROLLBACK succeeded.
revert_transaction(ok) ==
    /\ Usable
    /\ IF stashed = NoConn
         THEN /\ dbres' = Result("revert", "", "no_transaction", 0)
              /\ issued' = <<>>
              /\ UNCHANGED <<stashed, conns>>
         ELSE /\ stashed' = NoConn
              /\ issued' = <<Sql("ROLLBACK", 0, 0)>>
              /\ IF ok
                   THEN /\ conns' = [conns EXCEPT ![stashed] = FreshConn]
                        /\ dbres' = Result("revert", "", "ok", 0)
                   ELSE /\ conns' = [conns EXCEPT ![stashed] = FreshConn]
                        /\ dbres' = Result("revert", "", "err", 0)
    /\ UNCHANGED durable

\* Database::put_object.  ok: whether the database ran the statement without
\* an error of its own.
put_object(type_id, columns, bytes, ok) ==
    /\ Usable
    /\ IF type_id \notin DOMAIN Tables
         THEN \* error!("TypeId({}) not found in tables"); return
              /\ dbres' = Result("put", type_id, "ok", 0)
              /\ issued' = <<>>
              /\ UNCHANGED <<stashed, conns, durable>>
         ELSE LET table == Tables[type_id]
                  q == upsert_query(table, Schema[table], columns,
                                    Updates(Schema[table], columns))
              IN  IF stashed = NoConn
                    THEN \* expect("No transaction has been opened.")
                         /\ dbres' = Result("put", type_id, "panic", 0)
                         /\ issued' = <<>>
                         /\ UNCHANGED <<stashed, conns, durable>>
                    ELSE /\ issued' = <<Sql("UPSERT", Len(q.columns),
                                            Len(q.inserts))>>
                         /\ IF ok /\ UpsertAccepted(q)
                              THEN /\ conns' = [conns EXCEPT
                                        ![stashed].pend[q.inserts[1]] =
                                            UpsertRow(q, bytes,
                                                View(stashed, q.inserts[1]))]
                                   /\ dbres' = Result("put", type_id, "ok", 0)
                              ELSE \* expect("Failed to put object.")
                                   /\ dbres' = Result("put", type_id, "panic", 0)
                                   /\ UNCHANGED conns
                         /\ UNCHANGED <<stashed, durable>>

\* What get_object returns for a known type inside a transaction.  ok: whether
\* the database ran the SELECT without an error of its own; an error and a
\* missing row both give None.
GetReturns(type_id, object_id, ok) ==
    IF ok /\ View(stashed, object_id) # NoRow
      THEN Result("get", type_id, "some", View(stashed, object_id).object)
      ELSE Result("get", type_id, "none", 0)

\* Database::get_object.
get_object(type_id, object_id, ok) ==
    /\ Usable
    /\ IF type_id \notin DOMAIN Tables \/ stashed = NoConn
         THEN \* self.tables[&type_id] panics; expect("No transaction ..")
              /\ dbres' = Result("get", type_id, "panic", 0)
              /\ issued' = <<>>
         ELSE /\ issued' = <<Sql("SELECT", 0, 0)>>
              /\ dbres' = GetReturns(type_id, object_id, ok)
    /\ UNCHANGED <<stashed, conns, durable>>

NextDb ==
    \/ \E acq \in Conns \cup {NoConn}, ok \in BOOLEAN :
           start_transaction(acq, ok) /\ UNCHANGED nonDbVars
    \/ \E ok \in BOOLEAN : commit_transaction(ok) /\ UNCHANGED nonDbVars
    \/ \E ok \in BOOLEAN : revert_transaction(ok) /\ UNCHANGED nonDbVars
    \/ \E t \in TypeIds, cols \in ColumnLists, b \in Blobs, ok \in BOOLEAN :
           put_object(t, cols, b, ok) /\ UNCHANGED nonDbVars
    \/ \E t \in TypeIds, i \in Ids, ok \in BOOLEAN :
           get_object(t, i, ok) /\ UNCHANGED nonDbVars

\* The supervisor before any registration, while a session is exercised.
InitSvcIdle ==
    /\ execs = <<>>
    /\ handles = [u \in Uids |-> NoExec]
    /\ killers = [u \in Uids |-> NoExec]
    /\ futs = {}
    /\ pc = "setup"
    /\ chan = <<>>
    /\ nsent = 0
    /\ req = NoReq
    /\ new = NoExec
    /\ prev = NoExec
    /\ indexRows = {}
    /\ wasmVer = [u \in Uids |-> 0]
    /\ svcTx = "none"

\* No executor loop and no registration, while another part is exercised.
InitExIdle ==
    /\ epc = "none"
    /\ killed = FALSE
    /\ cursor = 0
    /\ calls = {}
    /\ ended = "none"
    /\ persisted = 0

InitRegIdle ==
    /\ manifest = <<>>
    /\ started = <<>>

\* No API handler and no verify_signature request, while another part is
\* exercised.
InitApiIdle ==
    /\ apc = "none"
    /\ api = <<>>
    /\ fields = <<>>
    /\ apiLog = <<>>

InitAuthIdle ==
    /\ vpc = <<>>
    /\ nonce = <<>>
    /\ tokens = {}
    /\ authConfig = <<>>

InitRunIdle ==
    /\ rpc = "none"
    /\ lock = "none"
    /\ exited = {}
    /\ retired = {}

\* A fresh session, and no supervisor activity.
InitSession ==
    /\ InitDb
    /\ InitSvcIdle
    /\ InitExIdle
    /\ InitRegIdle
    /\ InitRunIdle
    /\ InitApiIdle
    /\ InitAuthIdle

SpecDb == InitSession /\ [][NextDb]_vars

\* The session of no executor, while the supervisor is exercised.
InitDbIdle ==
    /\ stashed = 0
    /\ conns = <<>>
    /\ durable = <<>>
    /\ dbres = "none"
    /\ issued = <<>>

Init ==
    /\ InitSvc
    /\ InitDbIdle
    /\ InitExIdle
    /\ InitRegIdle
    /\ InitRunIdle
    /\ InitApiIdle
    /\ InitAuthIdle

Spec == Init /\ [][Next]_vars


\* ------------------------------------------- start block of a registration

MaxHeight == 3     \* block heights of the model
Heights == 1..MaxHeight

\* Option<T>: None, Some(v), Option::unwrap_or.
None == <<>>
Some(v) == <<v>>
unwrap_or(opt, d) == IF opt = None THEN d ELSE opt[1]

\* The manifests: resumable: Option<bool>, start_block: Option<u64>.
Manifests ==
    [resumable   : {None, Some(FALSE), Some(TRUE)},
     start_block : {None} \cup {Some(h) : h \in Heights}]

\* Result<u64, IndexerError>
Ok(v) == [st |-> "ok", val |-> v]
Err == [st |-> "err", val |-> 0]

\* queries::last_block_height_for_indexer: the last block height committed
\* for the uid.  queryOk: whether the query succeeded.
last_block_height_for_indexer(queryOk) ==
    IF queryOk THEN Ok(persisted) ELSE Err

\* get_start_block
get_start_block(m, queryOk) ==
    IF m.resumable # None
      THEN \* Some(_)
           LET last == last_block_height_for_indexer(queryOk)
           IN  IF last.st = "err" THEN Err ELSE Ok(last.val)
      ELSE Ok(unwrap_or(m.start_block, 1))

\* The executor WasmIndexExecutor::create / NativeIndexExecutor::create
\* builds on a registration path: its cursor starts at start_block.
Created(path, start_block) ==
    [path |-> path, st |-> "created", cursor |-> start_block]
\* The path ended before it created an executor.
NotCreated(path) == [path |-> path, st |-> "err", cursor |-> 0]

\* `get_start_block(..).await?` followed by create(.., &start_block).
StartOrReturn(path, queryOk) ==
    LET r == get_start_block(manifest, queryOk)
    IN  /\ started' = IF r.st = "err" THEN NotCreated(path)
                                       ELSE Created(path, r.val)
        /\ UNCHANGED manifest

\* `get_start_block(..).await.unwrap_or(1)` followed by create.
StartOrOne(path, queryOk) ==
    LET r == get_start_block(manifest, queryOk)
    IN  /\ started' = Created(path, IF r.st = "err" THEN 1 ELSE r.val)
        /\ UNCHANGED manifest

\* IndexerService::register_index_from_manifest
StartFromManifest(queryOk) == StartOrReturn("manifest", queryOk)
\* IndexerService::register_indices_from_registry
StartFromRegistry(queryOk) == StartOrOne("registry", queryOk)
\* IndexerService::register_native_index
StartNative(queryOk) == StartOrOne("native", queryOk)
\* create_service_task, ServiceRequest::AssetReload
StartOnReload(queryOk) == StartOrReturn("reload", queryOk)
\* create_service_task, ServiceRequest::IndexRevert
StartOnRevert(queryOk) == StartOrReturn("revert", queryOk)

\* A manifest, the height recorded for its uid, the block an executor of the
\* uid that runs already is processing (0: none runs; it is past the last
\* committed block), and no executor created yet.
InitStart ==
    /\ manifest \in Manifests
    /\ started = [path |-> "none", st |-> "none", cursor |-> 0]
    /\ persisted \in 0..MaxHeight
    /\ epc = "none"
    /\ killed = FALSE
    /\ cursor \in {0} \cup {h \in 1..(MaxHeight + 1) : h > persisted}
    /\ calls = {}
    /\ ended = "none"
    /\ InitSvcIdle
    /\ InitDbIdle
    /\ InitRunIdle
    /\ InitApiIdle
    /\ InitAuthIdle

NextStart ==
    \/ \E q \in BOOLEAN :
           StartFromManifest(q) /\ UNCHANGED nonRegVars
    \/ \E q \in BOOLEAN :
           StartFromRegistry(q) /\ UNCHANGED nonRegVars
    \/ \E q \in BOOLEAN :
           StartNative(q) /\ UNCHANGED nonRegVars
    \/ \E q \in BOOLEAN :
           StartOnReload(q) /\ UNCHANGED nonRegVars
    \/ \E q \in BOOLEAN :
           StartOnRevert(q) /\ UNCHANGED nonRegVars

SpecStart == InitStart /\ [][NextStart]_vars


\* -------------------------------------------------- executor control loop

\* The control loop of one executor over its Database session, one block per
\* batch: observe the cancellation flag, fetch, start_transaction, the
\* guest's put_object / get_object calls, then commit_transaction (guest
\* success) or revert_transaction (guest fault).  A panic inside a Database
\* call unwinds the executor's task.
AfterCall == IF dbres'.st = "panic" THEN "dead" ELSE "guest"

\* The executor's task has ended: it returned, or a panic unwound it.
Terminal == epc \in {"terminal", "dead"}

\* killer.store(true, Ordering::SeqCst) by the supervisor (AssetReload,
\* IndexStop, IndexRevert), at any moment of the executor's life.
SetKill ==
    /\ ~killed
    /\ ~Terminal
    /\ killed' = TRUE
    /\ UNCHANGED <<epc, cursor, calls, ended, persisted, dbVars>>

\* Step 1 with the flag never looked at.
ExecObserve_IgnoresFlag ==
    /\ epc = "check"
    /\ epc' = "fetch"
    /\ UNCHANGED <<killed, cursor, calls, ended, persisted, dbVars>>

\* Step 1: observe the cancellation flag; if set, go to Terminal and return.
ExecObserve ==
    /\ epc = "check"
    /\ epc' = IF killed THEN "terminal" ELSE "fetch"
    /\ UNCHANGED <<killed, cursor, calls, ended, persisted, dbVars>>

\* Step 2, empty batch: sleep for an idle interval.
ExecFetchEmpty ==
    /\ epc = "fetch"
    /\ epc' = "idle"
    /\ UNCHANGED <<killed, cursor, calls, ended, persisted, dbVars>>

\* The idle sleep is over (or was interrupted): continue with step 1.
ExecWake ==
    /\ epc = "idle"
    /\ epc' = "check"
    /\ UNCHANGED <<killed, cursor, calls, ended, persisted, dbVars>>

\* Steps 2 and 3: a block is there at cursor; start_transaction.  A failure
\* is a transport error: the block is tried again.
ExecStartTransaction(acq, beginOk) ==
    /\ epc = "fetch"
    /\ cursor <= MaxHeight
    /\ start_transaction(acq, beginOk)
    /\ epc' = IF dbres'.st = "ok" THEN "guest" ELSE "check"
    /\ calls' = {}
    /\ ended' = IF dbres'.st = "ok" THEN "open" ELSE "retry"
    /\ UNCHANGED <<killed, cursor, persisted>>

\* Step 4: the guest calls put_object.
GuestPutObject(type_id, columns, bytes, ok) ==
    /\ epc = "guest"
    /\ put_object(type_id, columns, bytes, ok)
    /\ calls' = calls \cup {[tid |-> type_id,
                              id  |-> IF columns = <<>> THEN 0 ELSE columns[1]]}
    /\ epc' = AfterCall
    /\ UNCHANGED <<killed, cursor, ended, persisted>>

\* Step 4: the guest calls get_object.
GuestGetObject(type_id, object_id, ok) ==
    /\ epc = "guest"
    /\ get_object(type_id, object_id, ok)
    /\ epc' = AfterCall
    /\ UNCHANGED <<killed, cursor, calls, ended, persisted>>

\* Step 5, guest success: commit_transaction, advance the cursor past the
\* block and record the block height for the uid.  A failing COMMIT is a
\* transport error: the cursor stays.
ExecCommit(ok) ==
    /\ epc = "guest"
    /\ commit_transaction(ok)
    /\ epc' = "check"
    /\ IF ok
         THEN /\ ended' = "committed"
              /\ persisted' = cursor
              /\ cursor' = cursor + 1
         ELSE /\ ended' = "failed"
              /\ UNCHANGED <<cursor, persisted>>
    /\ UNCHANGED <<killed, calls>>

\* Step 6, guest fault (trap, handler error): revert_transaction and advance
\* the cursor by one block.
ExecRevert(ok) ==
    /\ epc = "guest"
    /\ revert_transaction(ok)
    /\ epc' = "check"
    /\ ended' = "reverted"
    /\ cursor' = cursor + 1
    /\ UNCHANGED <<killed, calls, persisted>>

\* A new executor of a manifest without start_block and resumable, on a fresh
\* session.
InitExec ==
    /\ InitDb
    /\ epc = "check"
    /\ killed = FALSE
    /\ cursor = 1
    /\ calls = {}
    /\ ended = "none"
    /\ persisted = 0
    /\ InitSvcIdle
    /\ InitRegIdle
    /\ InitRunIdle
    /\ InitApiIdle
    /\ InitAuthIdle

\* The steps of the executor's own task outside the guest, and the return of
\* the guest.
ExecLoopStep ==
    \/ ExecObserve
    \/ ExecFetchEmpty
    \/ ExecWake
    \/ \E acq \in Conns \cup {NoConn}, ok \in BOOLEAN :
           ExecStartTransaction(acq, ok)
GuestReturn ==
    \/ \E ok \in BOOLEAN : ExecCommit(ok)
    \/ \E ok \in BOOLEAN : ExecRevert(ok)

NextExec ==
    \/ SetKill /\ UNCHANGED nonExecVars
    \/ ExecObserve /\ UNCHANGED nonExecVars
    \/ ExecFetchEmpty /\ UNCHANGED nonExecVars
    \/ ExecWake /\ UNCHANGED nonExecVars
    \/ \E acq \in Conns \cup {NoConn}, ok \in BOOLEAN :
           ExecStartTransaction(acq, ok) /\ UNCHANGED nonExecVars
    \/ \E t \in TypeIds, cols \in ColumnLists, b \in Blobs, ok \in BOOLEAN :
           GuestPutObject(t, cols, b, ok) /\ UNCHANGED nonExecVars
    \/ \E t \in TypeIds, i \in Ids, ok \in BOOLEAN :
           GuestGetObject(t, i, ok) /\ UNCHANGED nonExecVars
    \/ \E ok \in BOOLEAN : ExecCommit(ok) /\ UNCHANGED nonExecVars
    \/ \E ok \in BOOLEAN : ExecRevert(ok) /\ UNCHANGED nonExecVars

SpecExec == InitExec /\ [][NextExec]_vars

\* The runtime schedules the executor's task, a fetch and a sleep end, and
\* the guest returns from a block (with success or with a fault).
SpecExecFair ==
    /\ InitExec
    /\ [][NextExec]_vars
    /\ WF_vars(ExecLoopStep /\ UNCHANGED nonExecVars)
    /\ WF_vars(GuestReturn /\ UNCHANGED nonExecVars)


\* ------------------------------------ run(): service task and retirement

\* The ServiceRequest types.
RequestTypes == {"AssetReload", "IndexStop", "IndexRevert"}

\* How the handling of a request ends: "handled" (nothing pushed: IndexStop,
\* a failed index lookup), "pushed" (AssetReload and IndexRevert push the new
\* executor's handle), "err" (a `?` returns from the task), "panic" (an
\* expect).
HandleOutcomes(t) ==
    IF t = "IndexStop" THEN {"handled"}
    ELSE {"handled", "pushed", "err", "panic"}

\* An API handler sends a request while the receiver lives.
RunSend(t) ==
    /\ pc \in {"recv", "try_recv"}
    /\ nsent < MaxReqs
    /\ chan' = Append(chan, [type |-> t, uid |-> "demo.v1", bytes |-> 0])
    /\ nsent' = nsent + 1
    /\ UNCHANGED <<execs, futs, pc, runVars>>

\* create_service_task, top of the loop: let futs = futs.lock().await
TaskLock ==
    /\ pc = "recv"
    /\ lock = "none"
    /\ lock' = "task"
    /\ pc' = "try_recv"
    /\ UNCHANGED <<execs, futs, chan, nsent, rpc, exited, retired>>

\* rx.try_recv() is Err: sleep, then the next iteration; the guard is
\* dropped at the end of the iteration.
TaskIdle ==
    /\ pc = "try_recv"
    /\ chan = <<>>
    /\ lock' = "none"
    /\ pc' = "recv"
    /\ UNCHANGED <<execs, futs, chan, nsent, rpc, exited, retired>>

\* rx.try_recv() is Ok(request): the handler runs with the guard held.
TaskHandle(o) ==
    /\ pc = "try_recv"
    /\ chan # <<>>
    /\ o \in HandleOutcomes(Head(chan).type)
    /\ chan' = Tail(chan)
    /\ lock' = "none"
    /\ IF o = "pushed"
         THEN /\ Len(execs) < MaxExecs
              /\ execs' = Spawn(execs, Head(chan).uid, 0)
              /\ futs' = futs \cup {Len(execs) + 1}
         ELSE UNCHANGED <<execs, futs>>
    /\ pc' = CASE o = "err" -> "returned"
               [] o = "panic" -> "panicked"
               [] OTHER -> "recv"
    /\ UNCHANGED <<nsent, rpc, exited, retired>>

\* An executor's task terminates (cancelled, idle timeout, panic).
ExecutorExit(e) ==
    /\ e \in 1..Len(execs)
    /\ e \notin exited
    /\ exited' = exited \cup {e}
    /\ UNCHANGED <<execs, futs, pc, chan, nsent, rpc, lock, retired>>

\* run(): tokio::spawn(create_service_task(..)).await.unwrap() returns when
\* the task has; a panic of the task is a JoinError and unwrap panics.
RunJoin ==
    /\ rpc = "join"
    /\ pc \in {"returned", "panicked"}
    /\ rpc' = IF pc = "panicked" THEN "panicked" ELSE "retire"
    /\ UNCHANGED <<execs, futs, pc, chan, nsent, lock, exited, retired>>

\* The retirement loop: futs.lock().await
RetireLock ==
    /\ rpc = "retire"
    /\ lock = "none"
    /\ lock' = "run"
    /\ rpc' = "next"
    /\ UNCHANGED <<execs, futs, pc, chan, nsent, exited, retired>>

\* .next().await gives a terminated executor: it is logged as retired.
RetireNext(e) ==
    /\ rpc = "next"
    /\ e \in futs \cap exited
    /\ futs' = futs \ {e}
    /\ retired' = retired \cup {e}
    /\ lock' = "none"
    /\ rpc' = "retire"
    /\ UNCHANGED <<execs, pc, chan, nsent, exited>>

\* .next().await gives None on an empty set: run() returns.
RetireEnd ==
    /\ rpc = "next"
    /\ futs = {}
    /\ lock' = "none"
    /\ rpc' = "done"
    /\ UNCHANGED <<execs, futs, pc, chan, nsent, exited, retired>>

\* run() after tokio::spawn: the registered executors are the shared future
\* set; with a receiver the service task loops, without one it returns Ok.
InitRun ==
    /\ execs \in {[i \in 1..n |-> [uid |-> UidOrder[i], module |-> 1,
                                   killed |-> FALSE]] : n \in 0..Len(UidOrder)}
    /\ Len(execs) <= MaxExecs
    /\ futs = 1..Len(execs)
    /\ pc \in {"recv", "returned"}
    /\ rpc = "join"
    /\ lock = "none"
    /\ exited = {}
    /\ retired = {}
    /\ handles = [u \in Uids |-> NoExec]
    /\ killers = [u \in Uids |-> NoExec]
    /\ chan = <<>>
    /\ nsent = 0
    /\ req = NoReq
    /\ new = NoExec
    /\ prev = NoExec
    /\ indexRows = {}
    /\ wasmVer = [u \in Uids |-> 0]
    /\ svcTx = "none"
    /\ InitDbIdle
    /\ InitExIdle
    /\ InitRegIdle
    /\ InitApiIdle
    /\ InitAuthIdle

\* What the steps of run() and of the compact service task leave alone.
runRest == <<handles, killers, req, new, prev, indexRows, wasmVer, svcTx,
             dbVars, exVars, regVars, apiVars, authVars>>

TaskStep ==
    \/ TaskLock
    \/ TaskIdle
    \/ \E o \in {"handled", "pushed", "err", "panic"} : TaskHandle(o)
RunStep ==
    \/ RunJoin
    \/ RetireLock
    \/ \E e \in 1..MaxExecs : RetireNext(e)
    \/ RetireEnd

NextRun ==
    \/ \E t \in RequestTypes : RunSend(t) /\ UNCHANGED runRest
    \/ TaskLock /\ UNCHANGED runRest
    \/ TaskIdle /\ UNCHANGED runRest
    \/ \E o \in {"handled", "pushed", "err", "panic"} :
           TaskHandle(o) /\ UNCHANGED runRest
    \/ \E e \in 1..MaxExecs : ExecutorExit(e) /\ UNCHANGED runRest
    \/ RunJoin /\ UNCHANGED runRest
    \/ RetireLock /\ UNCHANGED runRest
    \/ \E e \in 1..MaxExecs : RetireNext(e) /\ UNCHANGED runRest
    \/ RetireEnd /\ UNCHANGED runRest

\* The runtime schedules the service task and run().
SpecRun ==
    /\ InitRun
    /\ [][NextRun]_vars
    /\ WF_vars(TaskStep /\ UNCHANGED runRest)
    /\ WF_vars(RunStep /\ UNCHANGED runRest)


\* ============================================================ API handlers
\* stop_indexer and register_indexer_assets of the API server (uses.rs),
\* one await at a time.  A call is drawn by ApiCall; `ok` arguments are the
\* outcomes of the pool, of the SQL statements and of the channel send.

MaxFields == 2

\* Names a multipart field can carry; IndexAssetType::from_str accepts the
\* first three.
AssetTypes == {"wasm", "manifest", "schema"}
FieldNames == AssetTypes \cup {"other"}

Multiparts ==
    UNION {[1..n -> FieldNames] : n \in 0..MaxFields}

Logged(sql, ok) == Append(apiLog, [sql |-> sql, ok |-> ok])

\* The router hands the handler its extensions and body.
ApiCall(h, u, auth, hasTx, mp) ==
    /\ apc = "idle"
    /\ h = "stop_indexer" => mp = None
    /\ api' = [handler |-> h, uid |-> u, auth |-> auth, hasTx |-> hasTx,
               mp |-> mp]
    /\ fields' = mp
    /\ apiLog' = <<>>
    /\ apc' = "auth"
    /\ UNCHANGED chan

\* claims.is_unauthenticated(), and register_indexer_assets' `if let
\* Some(mut multipart)`.
ApiAuth ==
    /\ apc = "auth"
    /\ apc' = IF ~api.auth THEN "unauthorized"
              ELSE IF api.handler = "register_indexer_assets" /\ fields = None
                   THEN "err_default"
                   ELSE "acquire"
    /\ UNCHANGED <<api, fields, apiLog, chan>>

\* pool.acquire().await?
ApiAcquire(ok) ==
    /\ apc = "acquire"
    /\ apc' = IF ok THEN "begin" ELSE "err"
    /\ UNCHANGED <<api, fields, apiLog, chan>>

\* queries::start_transaction(&mut conn).await?
ApiBegin(ok) ==
    /\ apc = "begin"
    /\ apiLog' = Logged("BEGIN", ok)
    /\ apc' = IF ~ok THEN "err"
              ELSE IF api.handler = "stop_indexer" THEN "remove"
                   ELSE "field"
    /\ UNCHANGED <<api, fields, chan>>

\* stop_indexer: queries::remove_indexer
StopRemove(ok) ==
    /\ apc = "remove"
    /\ apiLog' = Logged("REMOVE", ok)
    /\ apc' = IF ok THEN "stop_commit" ELSE "revert"
    /\ UNCHANGED <<api, fields, chan>>

\* stop_indexer: queries::revert_transaction(&mut conn).await?; return Err
StopRevert(ok) ==
    /\ apc = "revert"
    /\ apiLog' = Logged("ROLLBACK", ok)
    /\ apc' = "err"
    /\ UNCHANGED <<api, fields, chan>>

StopCommit_SendsAnyway(ok) ==
    /\ apc = "stop_commit"
    /\ apiLog' = Logged("COMMIT", ok)
    /\ apc' = "stop_send"
    /\ UNCHANGED <<api, fields, chan>>

\* stop_indexer: queries::commit_transaction(&mut conn).await?
StopCommit(ok) ==
    /\ apc = "stop_commit"
    /\ apiLog' = Logged("COMMIT", ok)
    /\ apc' = IF ok THEN "stop_send" ELSE "err"
    /\ UNCHANGED <<api, fields, chan>>

\* stop_indexer: if let Some(tx) = tx { tx.send(IndexStop).await?; return
\* Ok }; Err(ApiError::default())
StopSend(ok) ==
    /\ apc = "stop_send"
    /\ IF ~api.hasTx
       THEN /\ apc' = "err_default"
            /\ UNCHANGED chan
       ELSE IF ok
            THEN /\ chan' = Append(chan, [type |-> "IndexStop",
                                          uid |-> api.uid, bytes |-> 0])
                 /\ apc' = "ok"
            ELSE /\ apc' = "err"
                 /\ UNCHANGED chan
    /\ UNCHANGED <<api, fields, apiLog>>

\* register_indexer_assets: while let Some(field) =
\* multipart.next_field().await.unwrap(), and IndexAssetType::from_str(&name)
\* .expect("Invalid asset type.")
RegNextField(ok) ==
    /\ apc = "field"
    /\ apc' = IF ~ok THEN "panicked"
              ELSE IF fields[1] = <<>> THEN "reg_commit"
                   ELSE IF Head(fields[1]) \notin AssetTypes THEN "panicked"
                        ELSE "asset"
    /\ UNCHANGED <<api, fields, apiLog, chan>>

\* register_indexer_assets: queries::register_index_asset of the field just
\* read; a Wasm or Manifest asset is pushed, a Schema goes on to new_schema.
RegAsset(ok) ==
    /\ apc = "asset"
    /\ apiLog' = Logged("INSERT", ok)
    /\ IF ~ok
       THEN /\ apc' = "err"
            /\ UNCHANGED fields
       ELSE IF Head(fields[1]) = "schema"
            THEN /\ apc' = "new_schema"
                 /\ UNCHANGED fields
            ELSE /\ apc' = "field"
                 /\ fields' = Some(Tail(fields[1]))
    /\ UNCHANGED <<api, chan>>

\* register_indexer_assets: schema_manager.write().await.new_schema(..)
\* .await?, then assets.push(asset)
RegNewSchema(ok) ==
    /\ apc = "new_schema"
    /\ apiLog' = Logged("SCHEMA", ok)
    /\ IF ok
       THEN /\ apc' = "field"
            /\ fields' = Some(Tail(fields[1]))
       ELSE /\ apc' = "err"
            /\ UNCHANGED fields
    /\ UNCHANGED <<api, chan>>

\* register_indexer_assets: queries::commit_transaction(&mut conn).await?
RegCommit(ok) ==
    /\ apc = "reg_commit"
    /\ apiLog' = Logged("COMMIT", ok)
    /\ apc' = IF ok THEN "reg_send" ELSE "err"
    /\ UNCHANGED <<api, fields, chan>>

\* register_indexer_assets: if let Some(tx) = tx { tx.send(AssetReload)
\* .await?; } return Ok
RegSend(ok) ==
    /\ apc = "reg_send"
    /\ IF ~api.hasTx
       THEN /\ apc' = "ok"
            /\ UNCHANGED chan
       ELSE IF ok
            THEN /\ chan' = Append(chan, [type |-> "AssetReload",
                                          uid |-> api.uid, bytes |-> 0])
                 /\ apc' = "ok"
            ELSE /\ apc' = "err"
                 /\ UNCHANGED chan
    /\ UNCHANGED <<api, fields, apiLog>>

InitApi ==
    /\ InitSvcIdle
    /\ InitDbIdle
    /\ InitExIdle
    /\ InitRegIdle
    /\ InitRunIdle
    /\ InitAuthIdle
    /\ apc = "idle"
    /\ api = <<>>
    /\ fields = None
    /\ apiLog = <<>>

apiRest == <<execs, handles, killers, futs, pc, nsent, req, new, prev,
             indexRows, wasmVer, svcTx, dbVars, exVars, regVars, runVars,
             authVars>>

NextApi ==
    \/ \E u \in Uids, auth \in BOOLEAN, hasTx \in BOOLEAN :
           ApiCall("stop_indexer", u, auth, hasTx, None) /\ UNCHANGED apiRest
    \/ \E u \in Uids, auth \in BOOLEAN, hasTx \in BOOLEAN,
          mp \in {None} \cup {Some(m) : m \in Multiparts} :
           ApiCall("register_indexer_assets", u, auth, hasTx, mp)
               /\ UNCHANGED apiRest
    \/ ApiAuth /\ UNCHANGED apiRest
    \/ \E ok \in BOOLEAN : ApiAcquire(ok) /\ UNCHANGED apiRest
    \/ \E ok \in BOOLEAN : ApiBegin(ok) /\ UNCHANGED apiRest
    \/ \E ok \in BOOLEAN : StopRemove(ok) /\ UNCHANGED apiRest
    \/ \E ok \in BOOLEAN : StopRevert(ok) /\ UNCHANGED apiRest
    \/ \E ok \in BOOLEAN : StopCommit(ok) /\ UNCHANGED apiRest
    \/ \E ok \in BOOLEAN : StopSend(ok) /\ UNCHANGED apiRest
    \/ \E ok \in BOOLEAN : RegNextField(ok) /\ UNCHANGED apiRest
    \/ \E ok \in BOOLEAN : RegAsset(ok) /\ UNCHANGED apiRest
    \/ \E ok \in BOOLEAN : RegNewSchema(ok) /\ UNCHANGED apiRest
    \/ \E ok \in BOOLEAN : RegCommit(ok) /\ UNCHANGED apiRest
    \/ \E ok \in BOOLEAN : RegSend(ok) /\ UNCHANGED apiRest

SpecApi == InitApi /\ [][NextApi]_vars


\* ========================================================= verify_signature
\* Concurrent verify_signature requests (uses.rs) whose payload.message is
\* the same nonce.  Each request runs on a pool connection of its own and
\* issues its statements outside any transaction.  queries::get_nonce and
\* queries::delete_nonce are a SELECT and a DELETE on the `nonce` table.

MaxVerifies == 2

Verifies == 1..MaxVerifies

VGoto(r, p) == vpc' = [vpc EXCEPT ![r] = p]

\* if config.authentication.enabled { pool.acquire().await? ... } else {
\* unreachable!() }; a strategy other than JWT is unimplemented!()
VAcquire(r, ok) ==
    /\ vpc[r] = "start"
    /\ VGoto(r, IF ~authConfig.enabled THEN "panicked"
                ELSE IF ~ok THEN "err"
                     ELSE IF authConfig.strategy # "JWT" THEN "panicked"
                          ELSE "get_nonce")
    /\ UNCHANGED <<nonce, tokens, authConfig>>

\* let nonce = queries::get_nonce(&mut conn, &payload.message).await?
VGetNonce(r, ok) ==
    /\ vpc[r] = "get_nonce"
    /\ VGoto(r, IF ok /\ nonce.stored THEN "expiry" ELSE "err")
    /\ UNCHANGED <<nonce, tokens, authConfig>>

\* if nonce.is_expired() { return Err(Unauthorized) }
VCheckExpired(r) ==
    /\ vpc[r] = "expiry"
    /\ VGoto(r, IF nonce.expired THEN "unauthorized" ELSE "signature")
    /\ UNCHANGED <<nonce, tokens, authConfig>>

\* sig.recover(&msg)? and sig.verify(&pk, &msg)
VSignature(r, ok) ==
    /\ vpc[r] = "signature"
    /\ VGoto(r, IF ok THEN "encode" ELSE "err")
    /\ UNCHANGED <<nonce, tokens, authConfig>>

\* let token = encode(..)?
VEncode(r, ok) ==
    /\ vpc[r] = "encode"
    /\ VGoto(r, IF ok THEN "delete_nonce" ELSE "err")
    /\ UNCHANGED <<nonce, tokens, authConfig>>

\* DELETE of the nonce row: succeeds whether or not the row is still there.
delete_nonce(ok) ==
    IF ok THEN [nonce EXCEPT !.stored = FALSE] ELSE nonce

\* queries::delete_nonce(&mut conn, &nonce).await?; Ok(Json({"token":
\* token}))
VDeleteNonce(r, ok) ==
    /\ vpc[r] = "delete_nonce"
    /\ nonce' = delete_nonce(ok)
    /\ VGoto(r, IF ok THEN "token" ELSE "err")
    /\ tokens' = IF ok THEN tokens \cup {r} ELSE tokens
    /\ UNCHANGED authConfig

\* Time passes the nonce's expiry timestamp.
NonceExpires ==
    /\ ~nonce.expired
    /\ nonce' = [nonce EXCEPT !.expired = TRUE]
    /\ UNCHANGED <<vpc, tokens, authConfig>>

InitAuth ==
    /\ InitSvcIdle
    /\ InitDbIdle
    /\ InitExIdle
    /\ InitRegIdle
    /\ InitRunIdle
    /\ InitApiIdle
    /\ vpc = [r \in Verifies |-> "start"]
    /\ nonce \in [stored : BOOLEAN, expired : BOOLEAN]
    /\ tokens = {}
    /\ authConfig \in [enabled : BOOLEAN, strategy : {"JWT", "none"}]

NextAuth ==
    \/ \E r \in Verifies, ok \in BOOLEAN :
           VAcquire(r, ok) /\ UNCHANGED nonAuthVars
    \/ \E r \in Verifies, ok \in BOOLEAN :
           VGetNonce(r, ok) /\ UNCHANGED nonAuthVars
    \/ \E r \in Verifies : VCheckExpired(r) /\ UNCHANGED nonAuthVars
    \/ \E r \in Verifies, ok \in BOOLEAN :
           VSignature(r, ok) /\ UNCHANGED nonAuthVars
    \/ \E r \in Verifies, ok \in BOOLEAN :
           VEncode(r, ok) /\ UNCHANGED nonAuthVars
    \/ \E r \in Verifies, ok \in BOOLEAN :
           VDeleteNonce(r, ok) /\ UNCHANGED nonAuthVars
    \/ NonceExpires /\ UNCHANGED nonAuthVars

SpecAuth == InitAuth /\ [][NextAuth]_vars


\* ================================================================== claims

\* The supervisor is between operations: registering, or waiting for a request.
Quiescent == pc \in {"setup", "recv"}

ReloadPrePcs == {"reload_acquire", "reload_index_id", "reload_assets",
                 "reload_manifest", "reload_start_block", "reload_create"}
ReloadPcs == ReloadPrePcs \cup {"reload_push", "reload_insert", "reload_kill"}
RevertPcs == {"revert_kill", "revert_acquire", "revert_begin", "revert_assets",
              "revert_remove", "revert_commit", "revert_rollback",
              "revert_manifest", "revert_start_block", "revert_create",
              "revert_push", "revert_insert"}

\* C1: between operations, every uid of the kill-flag map has exactly one
\* executor spawned for it that runs with its cancellation flag unset.
C1_ExactlyOneLivePerUid ==
    Quiescent =>
        \A u \in Uids : killers[u] # NoExec => Cardinality(LiveExecs(u)) = 1

\* C2: while and after AssetReload is handled, the executor being replaced has
\* its flag set only when the new executor is spawned, in the future set and
\* in the kill-flag map.
C2_NewUpBeforeOldDown ==
    req.type = "AssetReload" =>
        \A old \in ({prev} \cup (IF pc \in ReloadPcs \ {"reload_kill"}
                                   THEN {killers[req.uid]} ELSE {}))
                     \ {NoExec, new} :
            execs[old].killed =>
                /\ new \in 1..Len(execs)
                /\ ~execs[new].killed
                /\ new \in futs
                /\ killers[req.uid] = new

\* C2 witness: a reload has replaced a running executor.
C2_Witness ==
    /\ pc = "recv"
    /\ req.type = "AssetReload"
    /\ prev # NoExec
    /\ execs[prev].killed
    /\ new \in futs
    /\ killers[req.uid] = new

\* C3: every step of an AssetReload up to the creation of the executor leaves
\* the executors, their flags, the kill-flag map and the future set as they
\* were, with no new executor and the existing one not cancelled; and the
\* handler fails (panics, returns, or skips the request) only in those steps.
C3_FailedReloadNotApplied ==
    [][/\ (pc \in ReloadPrePcs /\ pc' # "reload_push") =>
            /\ execs' = execs
            /\ killers' = killers
            /\ futs' = futs
            /\ new' = NoExec
            /\ killers[req.uid] # NoExec => ~execs'[killers[req.uid]].killed
       /\ (pc \in ReloadPcs /\ pc' \in {"panicked", "returned"}) =>
            pc \in ReloadPrePcs
       /\ (pc \in ReloadPcs /\ pc' = "recv") =>
            pc \in {"reload_index_id", "reload_insert", "reload_kill"}]_vars

\* C3 witness: a reload of a running index failed at the start-block lookup.
C3_Witness ==
    /\ pc = "returned"
    /\ req.type = "AssetReload"
    /\ killers[req.uid] # NoExec
    /\ ~execs[killers[req.uid]].killed
    /\ new = NoExec

\* C4: once the asset-row removal of an IndexRevert failed and its transaction
\* was reverted, no executor of the kill-flag map is cancelled and no new
\* executor was spawned.
C4_FailedRemovalAbortsRevert ==
    (req.type = "IndexRevert" /\ svcTx = "reverted") =>
        /\ new = NoExec
        /\ \A u \in Uids : killers[u] # NoExec => ~execs[killers[u]].killed

\* C5: while an IndexRevert is handled, the running executor's flag is set
\* only after the removal of the latest Module asset row was committed.
C5_KillOnlyAfterCommit ==
    (/\ pc \in RevertPcs
     /\ killers[req.uid] \notin {NoExec, new}
     /\ execs[killers[req.uid]].killed) => svcTx = "committed"

\* C6: IndexStop of a uid of the kill-flag map sets that executor's flag,
\* removes the uid from the map and leaves every other flag and entry alone.
C6_StopKillsAndRemoves ==
    [][(pc = "stop" /\ pc' # "stop" /\ killers[req.uid] # NoExec) =>
            /\ Len(execs') = Len(execs)
            /\ execs'[killers[req.uid]].killed
            /\ killers'[req.uid] = NoExec
            /\ \A u \in Uids \ {req.uid} : killers'[u] = killers[u]
            /\ \A e \in 1..Len(execs) :
                   e # killers[req.uid] => execs'[e] = execs[e]]_vars

\* C6 witness: an executor was stopped while another uid stays in the map.
C6_Witness ==
    /\ pc = "recv"
    /\ req.type = "IndexStop"
    /\ killers[req.uid] = NoExec
    /\ \E e \in 1..Len(execs) : execs[e].uid = req.uid /\ execs[e].killed
    /\ \E u \in Uids \ {req.uid} :
           killers[u] # NoExec /\ ~execs[killers[u]].killed

\* C7: IndexStop always leaves the uid out of the kill-flag map and the
\* supervisor waiting for the next request; for a uid that is not in the map
\* it changes no flag, no map entry and no executor.
C7_StopIdempotent ==
    [][(pc = "stop" /\ pc' # "stop") =>
            /\ pc' = "recv"
            /\ killers'[req.uid] = NoExec
            /\ killers[req.uid] = NoExec =>
                   UNCHANGED <<execs, killers, futs, handles>>]_vars

\* C7 witness: IndexStop was handled for a uid no executor was ever spawned
\* for, and the supervisor waits for the next request.
C7_Witness ==
    /\ pc = "recv"
    /\ req.type = "IndexStop"
    /\ killers[req.uid] = NoExec
    /\ \A e \in 1..Len(execs) : execs[e].uid # req.uid

\* C8: a put_object or get_object on an Idle session fails and sends nothing
\* to the database.
C8_PutGetFailWhenIdle ==
    (dbres.op \in {"put", "get"} /\ stashed = NoConn) =>
        (dbres.st = "panic" /\ issued = <<>>)

\* C9: start_transaction on a session that is InTx fails and leaves the
\* stashed connection and the open transactions as they were.
C9_StartFailsWhenInTx ==
    [][(stashed # NoConn /\ dbres'.op = "start") =>
            /\ dbres'.st = "err"
            /\ stashed' = stashed
            /\ conns' = conns]_vars

\* C10: commit_transaction and revert_transaction leave the session Idle; on
\* an Idle session they fail with the no-transaction error and send no SQL,
\* on an InTx session they send their one statement on the stashed connection.
C10_CommitRevertLeaveIdle ==
    [][dbres'.op \in {"commit", "revert"} =>
            /\ stashed' = NoConn
            /\ stashed = NoConn =>
                   /\ dbres'.st = "no_transaction"
                   /\ issued' = <<>>
                   /\ UNCHANGED <<conns, durable>>
            /\ stashed # NoConn =>
                   /\ dbres'.st \in {"ok", "err"}
                   /\ Len(issued') = 1
                   /\ issued'[1].sql =
                          (IF dbres'.op = "commit" THEN "COMMIT" ELSE "ROLLBACK")]_vars

\* C10 witness: after a transaction was committed, a revert on the Idle
\* session failed with the no-transaction error.
C10_Witness ==
    /\ dbres = Result("revert", "", "no_transaction", 0)
    /\ stashed = NoConn
    /\ \E i \in Ids : durable[i] # NoRow


\* C11: a session holds at most one pool connection and has at most one
\* transaction begun and neither committed nor rolled back: every connection
\* with an open BEGIN is the one the session has stashed, none was dropped or
\* replaced.
C11_OneConnOneTx ==
    /\ Cardinality({c \in Conns : conns[c].tx}) <= 1
    /\ \A c \in Conns : conns[c].tx => c = stashed

\* C12: an operation that errors while the session is InTx (a failing COMMIT,
\* a failing put_object or get_object) leaves the session InTx; only
\* revert_transaction takes the session from InTx to Idle after an error.
C12_ErrorKeepsInTx ==
    [][(/\ stashed # NoConn
        /\ dbres'.st \in {"err", "panic"}
        /\ dbres'.op # "revert") => stashed' = stashed]_vars

\* C14: within one transaction, for every type_id known to the schema and
\* every object id, a put_object(type_id, columns, blob) that returns is
\* followed by a get_object(type_id, id) that returns Some(blob).
C14_PutThenGet ==
    [][\A t \in DOMAIN Tables, cols \in ColumnLists, b \in Blobs :
          (put_object(t, cols, b, TRUE) /\ dbres'.st = "ok")
              => GetReturns(t, cols[1], TRUE)' = Result("get", t, "some", b)]_vars

\* C15: get_object returns the blob of the most recent put_object for the id:
\* a put_object for an id that already has a row (the ON CONFLICT DO UPDATE
\* path) makes get_object return the new blob, and get_object returns none
\* only when there is no row for the id.
C15_LatestBlobWins ==
    [][/\ \A t \in DOMAIN Tables, cols \in ColumnLists, b \in Blobs :
            (/\ put_object(t, cols, b, TRUE)
             /\ dbres'.st = "ok"
             /\ View(stashed, cols[1]) # NoRow)
                => GetReturns(t, cols[1], TRUE)'.val = b
       /\ \A t \in DOMAIN Tables, i \in Ids :
            (get_object(t, i, TRUE) /\ dbres'.st = "none")
                => View(stashed, i) = NoRow]_vars

\* C16: inside a block's transaction, a guest call that violates the
\* capability contract (put_object or get_object with an unknown type_id,
\* put_object with the wrong number of column values) ends in an error
\* returned to the host, which can then abort the block and revert: it
\* neither returns normally nor ends the executor's task.
C16_ContractViolationIsError ==
    (/\ stashed # NoConn
     /\ dbres.op \in {"put", "get"}
     /\ \/ dbres.tid \notin DOMAIN Tables
        \/ /\ issued # <<>>
           /\ issued[1].sql = "UPSERT"
           /\ issued[1].cols # issued[1].vals + 1)
        => dbres.st = "err"

\* C18: every upsert statement put_object generates and sends has one column
\* more than it has value fragments (the blob is the bound $1); a put_object
\* with another number of column values never reaches the database.
C18_UpsertShape ==
    \A k \in 1..Len(issued) :
        issued[k].sql = "UPSERT" => issued[k].cols = issued[k].vals + 1

\* C19: for a manifest that is not resumable (the flag is absent or false) the
\* executor's initial cursor is manifest.start_block, or 1 when start_block
\* is absent, whatever height is recorded for the uid.
C19_NonResumableStart ==
    (/\ started.st = "created"
     /\ manifest.resumable \in {None, Some(FALSE)})
        => started.cursor = unwrap_or(manifest.start_block, 1)

\* C20: for a resumable manifest, on every registration path the executor's
\* initial cursor is the last committed block height of the uid plus one.
C20_ResumableStart ==
    (/\ started.st = "created"
     /\ manifest.resumable = Some(TRUE))
        => started.cursor = persisted + 1

\* The put_object calls of the last block whose row is durable.
DurableCalls ==
    {c \in calls : c.tid \in DOMAIN Tables /\ c.id \in Ids /\ durable[c.id] # NoRow}

\* C13: a block's writes are all-or-nothing: once the processing of a block
\* has ended with a commit, every put_object of the block is durable, and in
\* no case is a strict, non-empty subset of the block's writes durable.
C13_BlockAllOrNothing ==
    ended = "committed" => (DurableCalls = calls \/ DurableCalls = {})

\* C17: when the processing of a block fails (the guest traps or its handler
\* returns an error; a put_object fails against the database) the executor
\* reverts the block's transaction, advances the cursor by exactly one block
\* and stays alive to process the following blocks.
C17_BlockFailureSkipsBlock ==
    [][(/\ epc = "guest"
        /\ \/ dbres'.op = "revert"
           \/ /\ dbres'.op = "put"
              /\ dbres'.st # "ok"
              /\ issued' # <<>>
              /\ issued'[1].cols = issued'[1].vals + 1)
          => /\ epc' = "check"
             /\ stashed' = NoConn
             /\ cursor' = cursor + 1]_vars

\* C21: the executor AssetReload creates starts at the block height the
\* executor it replaces is processing, whether the manifest is resumable or
\* not.
C21_ReloadStartsAtCurrentBlock ==
    (/\ started.st = "created"
     /\ started.path = "reload"
     /\ cursor # 0)
        => started.cursor = cursor

\* C22: whenever register_index_from_manifest returns an error, at whatever
\* step, no executor task of the manifest has been spawned or is left
\* running, and the handle map and the kill-flag map are unchanged.
C22_FailedRegistrationSpawnsNothing ==
    [][\A u \in Uids, o \in RegOutcomes \ {"ok"} :
          RegisterIndexFromManifest(u, o)
              => /\ execs' = execs
                 /\ handles' = handles
                 /\ killers' = killers]_vars

C24_FlagMonotonic ==
    [][\A e \in 1..Len(execs) :
          execs[e].killed => (e <= Len(execs') /\ execs'[e].killed)]_vars
\* Two flags were set one after the other, and the first is still set.
C24_Witness ==
    \E e1, e2 \in 1..Len(execs) :
        e1 # e2 /\ execs[e1].killed /\ execs[e2].killed

\* C26: the supervisor's request consumer never stops while the service
\* channel is open: whatever the outcome of a request, the consumer goes on
\* to the requests that follow it.
C26_ConsumerNeverStops ==
    [][pc \notin {"setup", "panicked", "returned"}
          => pc' \notin {"panicked", "returned"}]_vars

\* C25: every executor task that terminates is eventually retired by the
\* retirement consumer while the supervisor runs, also while the request
\* consumer is active on an open channel.
C25_TerminatedIsRetired ==
    \A e \in 1..MaxExecs : (e \in exited) ~> (e \in retired)

\* The statements of the handler's transaction that failed.
FailedSteps == {i \in 1..Len(apiLog) : ~apiLog[i].ok}

Inserts == {i \in 1..Len(apiLog) : apiLog[i].sql = "INSERT"}

\* C27: a ServiceRequest is on the channel only once the handler's
\* transaction has committed: every statement of the handler succeeded and
\* the last one is the COMMIT; register_indexer_assets has then registered
\* every uploaded field and sent an AssetReload, stop_indexer has removed the
\* indexer and sent an IndexStop.  Hence a failed statement leaves the
\* channel empty, and in stop_indexer a failed removal is followed by the
\* ROLLBACK, never by a COMMIT.
C27_SendOnlyAfterCommit ==
    /\ chan # <<>> =>
          /\ Len(chan) = 1
          /\ FailedSteps = {}
          /\ apiLog # <<>>
          /\ apiLog[Len(apiLog)].sql = "COMMIT"
          /\ chan[1].uid = api.uid
          /\ api.handler = "stop_indexer" =>
                /\ chan[1].type = "IndexStop"
                /\ \E i \in 1..Len(apiLog) : apiLog[i].sql = "REMOVE"
          /\ api.handler = "register_indexer_assets" =>
                /\ chan[1].type = "AssetReload"
                /\ fields = Some(<<>>)
                /\ Cardinality(Inserts) = Len(api.mp[1])
    /\ FailedSteps # {} => chan = <<>>
    /\ \A i \in 1..Len(apiLog) :
          (apiLog[i].sql = "REMOVE" /\ ~apiLog[i].ok /\ apc # "revert") =>
              /\ Len(apiLog) = i + 1
              /\ apiLog[i + 1].sql = "ROLLBACK"

\* register_indexer_assets has sent its AssetReload after two assets.
C27_Witness ==
    /\ chan # <<>>
    /\ api.handler = "register_indexer_assets"
    /\ Len(api.mp[1]) = 2
    /\ apc = "ok"

\* C28: over any interleaving of verify_signature requests carrying the
\* same nonce, at most one of them returns a token.
C28_OneTokenPerNonce ==
    Cardinality(tokens) <= 1

====
